---- MODULE Spec2Model ----
(***************************************************************************)
(* State-machine model of src/004.py (Sistema Financiero): the SQLite      *)
(* tables usuarios, transacciones, cuentas_por_cobrar, cuentas_por_pagar   *)
(* and historial_cambios, the session (App.current_user), the screen that  *)
(* is displayed and the Tk handlers that read and write them.              *)
(*                                                                         *)
(* Conventions                                                             *)
(*  - a text (Entry contents, column of type TEXT) is a sequence of        *)
(*    one-character strings, so that str.strip() and len() are computed;   *)
(*  - a table is the set of its rows, a row is a record;                   *)
(*  - Python's None / empty tuple is the empty sequence <<>>, a value that *)
(*    is present is a one-element sequence;                                *)
(*  - monto is REAL in the source; amounts are modelled as integers (whole *)
(*    currency units), so float rounding is outside the model;             *)
(*  - a date is a day number; Hoy is datetime.now().date().                *)
(*  - payload columns that no handler reads (descripcion, fecha_registro,  *)
(*    historial_cambios.fecha) are left out.                               *)
(***************************************************************************)
EXTENDS Integers, Sequences, FiniteSets, TLC

VARIABLES
    usuarios,            \* table usuarios
    transacciones,       \* table transacciones
    cuentas_por_cobrar,  \* table cuentas_por_cobrar
    cuentas_por_pagar,   \* table cuentas_por_pagar
    historial_cambios,   \* table historial_cambios, in insertion (id) order
    sqlite_sequence,     \* AUTOINCREMENT: last id handed out for transacciones
    current_user,        \* App.current_user: <<>> or <<row of usuarios>>
    pantalla,            \* which screen the window shows
    medio_var,           \* StringVar of the "Medio" combobox
    banco_var,           \* StringVar of the "Banco" combobox
    pila,                \* call stack of the main thread, innermost frame
                         \* last; empty while mainloop() waits for an event
    programa,            \* calls the running handler has still to make
    lock,                \* DB._lock is held
    after,               \* the timer of self.after(..., backup_periodic)
    respaldos,           \* files written to the folder backups in this run
    ultimo               \* history variable: the last handler that acted on the
                         \* store or the session, the messagebox it showed,
                         \* the store as it was before the handler ran, and
                         \* the amounts the user has recorded so far, summed
                         \* per currency and direction as they were typed

\* the store, the session and the form
datos == <<usuarios, transacciones, cuentas_por_cobrar, cuentas_por_pagar,
           historial_cambios, sqlite_sequence, current_user, pantalla,
           medio_var, banco_var, ultimo>>

\* the main thread, the lock, the timer and the backups
hilo == <<pila, programa, lock, after, respaldos>>

vars == <<datos, hilo>>

(***************************************************************************)
(* Bounds of the model.                                                    *)
(***************************************************************************)
\* rows of historial_cambios: every movement mutation appends one, so this
\* caps the number of record/softDelete/restore/purge operations of a run
MaxCambios == 3
\* rows ever inserted into transacciones (ids handed out)
MaxMovimientos == 2
\* rows of cuentas_por_cobrar, and of cuentas_por_pagar
MaxCuentas == 1
\* rows of usuarios
MaxUsuarios == 2
\* backups of a run, the one made at startup included
MaxRespaldos == 3

(***************************************************************************)
(* Texts.                                                                  *)
(***************************************************************************)
RECURSIVE lstrip(_)
lstrip(s) == IF s # <<>> /\ Head(s) = " " THEN lstrip(Tail(s)) ELSE s

RECURSIVE rstrip(_)
rstrip(s) ==
    IF s # <<>> /\ s[Len(s)] = " " THEN rstrip(SubSeq(s, 1, Len(s) - 1)) ELSE s

\* str.strip()
strip(s) == rstrip(lstrip(s))

\* a hash_password that returns the password itself
hash_password_plano(password) == password

\* sha256(password.encode('utf-8')).hexdigest(): modelled as an injective
\* function whose values are not plaintexts (no collision, no fixed point)
hash_password(password) == <<"sha256">> \o password

\* a comparison that accepts every password
check_password_cualquiera(password, hashed) == TRUE

check_password(password, hashed) == hash_password(password) = hashed

\* len(password) < 4 is refused
MinPasswordLen == 4

(***************************************************************************)
(* The store.                                                              *)
(***************************************************************************)
\* what the handlers may change, as one value (used for ultimo.antes)
DB ==
    [usuarios           |-> usuarios,
     transacciones      |-> transacciones,
     cuentas_por_cobrar |-> cuentas_por_cobrar,
     cuentas_por_pagar  |-> cuentas_por_pagar,
     historial_cambios  |-> historial_cambios,
     current_user       |-> current_user]

\* the handler op ran with argument arg (a selected id, or <<>>) and showed msg
Evento(op, arg, msg) ==
    [op |-> op, arg |-> arg, msg |-> msg, antes |-> DB,
     registrado |-> ultimo.registrado]

\* SELECT * FROM usuarios WHERE username = ?  (first row or None)
get_user(username) ==
    LET rows == {u \in usuarios : u.username = username}
    IN  IF rows = {} THEN <<>> ELSE <<CHOOSE u \in rows : TRUE>>

\* SELECT * FROM usuarios WHERE tipo='master'
masters(us) == {u \in us : u.tipo = "master"}

\* a log_change that inserts nothing
log_change_omitido(usuario, accion, tabla, registro_id) == historial_cambios

\* log_change: INSERT INTO historial_cambios
log_change(usuario, accion, tabla, registro_id) ==
    Append(historial_cambios,
           [usuario |-> usuario, accion |-> accion, tabla |-> tabla,
            registro_id |-> registro_id])

(***************************************************************************)
(* Screens.                                                                *)
(***************************************************************************)
\* create_login_screen: shows the login form; when the table holds no master
\* it asks "Crear uno ahora?" and, on yes, opens the master registration form
create_login_screen(us) ==
    {"login"} \cup
        (IF masters(us) = {} THEN {"registro_master"} ELSE {})

\* the three ways create_user_registration_screen is opened
PantallasRegistro == {"registro_master", "registro_estandar", "registro"}

\* create_main_screen rebuilds the tabs: build_tab_transacciones sets
\* medio_var to "fisico", banco_var to "" and runs on_medio_change()
MainScreen ==
    /\ pantalla' = "main"
    /\ medio_var' = "fisico"
    /\ banco_var' = ""

SinFormulario == UNCHANGED <<medio_var, banco_var>>

SinTablas ==
    UNCHANGED <<usuarios, transacciones, cuentas_por_cobrar, cuentas_por_pagar,
                historial_cambios, sqlite_sequence>>

(***************************************************************************)
(* Messages shown by the handlers (messagebox texts, abbreviated).         *)
(***************************************************************************)
MsgFaltanCredenciales == "Debe ingresar usuario y contrasena"
MsgCredencialesIncorrectas == "Usuario o contrasena incorrectos"
MsgBienvenido == "Bienvenido"
MsgCamposObligatorios == "Todos los campos son obligatorios"
MsgPasswordCorta == "La contrasena debe tener al menos 4 caracteres"
MsgUsuarioExiste == "El usuario ya existe"
MsgUsuarioRegistrado == "Usuario registrado correctamente"
MsgNoSePudoRegistrar == "No se pudo registrar el usuario"

(***************************************************************************)
(* Login, logout.                                                          *)
(***************************************************************************)
\* login(): usuario_entry and password_entry hold the two texts
login(usuario_txt, password_txt) ==
    LET username == strip(usuario_txt)
        password == password_txt
        user     == get_user(username)
    IN  /\ pantalla = "login"
        /\ SinTablas
        /\ IF username = <<>> \/ password = <<>>
           THEN /\ ultimo' = Evento("login", <<>>, MsgFaltanCredenciales)
                /\ UNCHANGED <<current_user, pantalla, medio_var, banco_var>>
           ELSE IF user = <<>> \/ ~check_password(password, user[1].password)
           THEN /\ ultimo' = Evento("login", <<>>, MsgCredencialesIncorrectas)
                /\ UNCHANGED <<current_user, pantalla, medio_var, banco_var>>
           ELSE /\ current_user' = user
                /\ ultimo' = Evento("login", <<>>, MsgBienvenido)
                /\ MainScreen

\* logout(), confirmed with yes
logout ==
    /\ pantalla = "main"
    /\ current_user' = <<>>
    /\ pantalla' \in create_login_screen(usuarios)
    /\ ultimo' = Evento("logout", <<>>, "")
    /\ SinTablas
    /\ SinFormulario

(***************************************************************************)
(* Registration of users.                                                  *)
(***************************************************************************)
\* the button "Registrarse" of the login screen
abrir_registro_estandar ==
    /\ pantalla = "login"
    /\ pantalla' = "registro_estandar"
    /\ UNCHANGED <<current_user, ultimo>>
    /\ SinTablas
    /\ SinFormulario

\* menu Usuarios > Registrar Usuario, built for a master only
abrir_registro_menu ==
    /\ pantalla = "main"
    /\ current_user # <<>> /\ current_user[1].tipo = "master"
    /\ pantalla' = "registro"
    /\ UNCHANGED <<current_user, ultimo>>
    /\ SinTablas
    /\ SinFormulario

\* the button "Cancelar": absent on the master-creation form
cancelar_registro ==
    /\ pantalla \in {"registro_estandar", "registro"}
    /\ IF pantalla = "registro_estandar"
       THEN pantalla' \in create_login_screen(usuarios) /\ SinFormulario
       ELSE MainScreen
    /\ UNCHANGED <<current_user, ultimo>>
    /\ SinTablas

\* a form that always shows the radio buttons
tipo_var_radio(radio) == radio

\* tipo_var: "master" on the master-creation form, "estandar" on the
\* self-registration form, the radio button otherwise
tipo_var(radio) ==
    IF pantalla = "registro_master" THEN "master"
    ELSE IF pantalla = "registro_estandar" THEN "estandar"
    ELSE radio

\* a table usuarios without its UNIQUE constraints
insert_usuario_sin_unique(cedula, username) == FALSE

\* the UNIQUE constraints of usuarios, as the INSERT checks them
insert_usuario_falla(cedula, username) ==
    \E u \in usuarios : u.cedula = cedula \/ u.username = username

\* register_user(): f holds the five Entry texts, radio the radio button
register_user(f, radio) ==
    LET nombre   == strip(f.nombre)
        apellido == strip(f.apellido)
        cedula   == strip(f.cedula)
        username == strip(f.username)
        password == f.password
        tipo     == tipo_var(radio)
        fila     == [id |-> Cardinality(usuarios) + 1, nombre |-> nombre,
                     apellido |-> apellido, cedula |-> cedula,
                     username |-> username,
                     password |-> hash_password(password), tipo |-> tipo]
    IN  /\ pantalla \in PantallasRegistro
        /\ UNCHANGED <<transacciones, cuentas_por_cobrar, cuentas_por_pagar,
                       historial_cambios, sqlite_sequence, current_user>>
        /\ SinFormulario
        /\ IF \E t \in {nombre, apellido, cedula, username, password} : t = <<>>
           THEN /\ ultimo' = Evento("register_user", <<>>, MsgCamposObligatorios)
                /\ UNCHANGED <<usuarios, pantalla>>
           ELSE IF Len(password) < MinPasswordLen
           THEN /\ ultimo' = Evento("register_user", <<>>, MsgPasswordCorta)
                /\ UNCHANGED <<usuarios, pantalla>>
           ELSE IF get_user(username) # <<>>
           THEN /\ ultimo' = Evento("register_user", <<>>, MsgUsuarioExiste)
                /\ UNCHANGED <<usuarios, pantalla>>
           ELSE IF insert_usuario_falla(cedula, username)
           THEN /\ ultimo' = Evento("register_user", <<>>, MsgNoSePudoRegistrar)
                /\ UNCHANGED <<usuarios, pantalla>>
           ELSE /\ Cardinality(usuarios) < MaxUsuarios
                /\ usuarios' = usuarios \cup {fila}
                /\ ultimo' = Evento("register_user", <<fila.id>>,
                                    MsgUsuarioRegistrado)
                /\ pantalla' \in create_login_screen(usuarios')

(***************************************************************************)
(* Numbers and dates typed by the user.                                    *)
(***************************************************************************)
Digitos == <<"0", "1", "2", "3", "4", "5", "6", "7", "8", "9">>

es_digito(c) == \E i \in 1..Len(Digitos) : Digitos[i] = c

valor_digito(c) == (CHOOSE i \in 1..Len(Digitos) : Digitos[i] = c) - 1

RECURSIVE valor_digitos(_)
valor_digitos(s) ==
    IF s = <<>> THEN 0
    ELSE 10 * valor_digitos(SubSeq(s, 1, Len(s) - 1)) + valor_digito(s[Len(s)])

\* float(text): <<value>>, or <<>> for ValueError.  Only the integer
\* literals [-]digits are parsed; float() also ignores surrounding blanks
float_(text) ==
    LET s    == strip(text)
        neg  == s # <<>> /\ Head(s) = "-"
        body == IF neg THEN Tail(s) ELSE s
    IN  IF body = <<>> \/ \E i \in 1..Len(body) : ~es_digito(body[i])
        THEN <<>>
        ELSE <<(IF neg THEN -1 ELSE 1) * valor_digitos(body)>>

\* datetime.now().date(), as a day number
Hoy == 100

(***************************************************************************)
(* Aggregates over transacciones (the Balance Engine).                     *)
(***************************************************************************)
Monedas == {"Bs", "USD"}

\* bancos of generate_pdf_report
Bancos == {"ven", "mercantil", "banesco"}

\* banco_labels of build_tab_transacciones: key -> label
banco_labels ==
    [ninguno |-> "", ven |-> "Venezuela", mercantil |-> "Mercantil",
     banesco |-> "Banesco"]

\* [k for k, v in banco_labels.items() if v == banco_nombre][0]
banco_key(banco_nombre) ==
    CHOOSE k \in DOMAIN banco_labels : banco_labels[k] = banco_nombre

\* SELECT SUM(monto): 0 for no row ("or 0")
RECURSIVE SUM(_)
SUM(rows) ==
    IF rows = {} THEN 0
    ELSE LET r == CHOOSE x \in rows : TRUE IN r.monto + SUM(rows \ {r})

\* SUM(CASE WHEN tipo='entrada' THEN monto ELSE -monto END)
RECURSIVE SUM_CASE(_)
SUM_CASE(rows) ==
    IF rows = {} THEN 0
    ELSE LET r == CHOOSE x \in rows : TRUE
         IN  (IF r.tipo = "entrada" THEN r.monto ELSE 0 - r.monto)
             + SUM_CASE(rows \ {r})

\* load_transactions: SELECT * FROM transacciones WHERE eliminado = 0
\* (the rows of the tree; ORDER BY fecha DESC fixes only their order)
load_transactions(T) == {r \in T : r.eliminado = 0}

\* a trash bin that lists every movement
load_deleted_todas(T) == T

\* load_deleted: SELECT * FROM transacciones WHERE eliminado = 1
load_deleted(T) == {r \in T : r.eliminado = 1}

\* a balance that adds the salidas instead of subtracting them
balance_moneda_sin_signo(T, moneda) ==
    SUM({r \in T : r.eliminado = 0 /\ r.moneda = moneda})

\* load_transactions, "Balance por moneda": entradas - salidas of a currency
balance_moneda(T, moneda) ==
    SUM({r \in T : r.tipo = "entrada" /\ r.eliminado = 0 /\ r.moneda = moneda})
    - SUM({r \in T : r.tipo = "salida" /\ r.eliminado = 0 /\ r.moneda = moneda})

\* load_transactions / generate_pdf_report, total_entrada - total_salida
balance_total(T) ==
    SUM({r \in T : r.tipo = "entrada" /\ r.eliminado = 0})
    - SUM({r \in T : r.tipo = "salida" /\ r.eliminado = 0})

\* a balance_banco whose queries leave out "eliminado = 0"
balance_banco_con_eliminados(T, moneda, banco) ==
    SUM({r \in T : r.tipo = "entrada" /\ r.moneda = moneda /\ r.banco = banco})
    - SUM({r \in T : r.tipo = "salida" /\ r.moneda = moneda /\ r.banco = banco})

\* generate_pdf_report, balance_banco of a currency and a bank
balance_banco(T, moneda, banco) ==
    SUM({r \in T : r.tipo = "entrada" /\ r.eliminado = 0
                   /\ r.moneda = moneda /\ r.banco = banco})
    - SUM({r \in T : r.tipo = "salida" /\ r.eliminado = 0
                     /\ r.moneda = moneda /\ r.banco = banco})

\* a general balance whose queries leave out "estado = 'pagada'"
balance_general_sin_estado(T, cxc, cxp, moneda) ==
    SUM_CASE({r \in T : r.eliminado = 0 /\ r.moneda = moneda})
    + SUM({c \in cxc : c.moneda = moneda})
    - SUM({c \in cxp : c.moneda = moneda})

\* generate_pdf_report, "Balance Total General" of a currency
balance_general(T, cxc, cxp, moneda) ==
    SUM_CASE({r \in T : r.eliminado = 0 /\ r.moneda = moneda})
    + SUM({c \in cxc : c.estado = "pagada" /\ c.moneda = moneda})
    - SUM({c \in cxp : c.estado = "pagada" /\ c.moneda = moneda})

\* an obtener_balance that compares with date(fecha) > ?
obtener_balance_posterior(T, moneda, desde) ==
    SUM_CASE({r \in T : r.eliminado = 0 /\ r.moneda = moneda
                        /\ r.fecha > desde})

\* calcular_comparativo, obtener_balance(moneda, desde)
obtener_balance(T, moneda, desde) ==
    SUM_CASE({r \in T : r.eliminado = 0 /\ r.moneda = moneda
                        /\ r.fecha >= desde})

\* the windows of calcular_comparativo
DiasSemana == 7
DiasMes == 30

Desdes == {Hoy, Hoy - DiasSemana, Hoy - DiasMes}

(***************************************************************************)
(* Tab "Transacciones".                                                    *)
(***************************************************************************)
MsgMontoInvalido == "Monto y bancos deben ser numeros validos"
MsgMontoNoPositivo == "El monto debe ser mayor a cero"
MsgTransaccionRegistrada == "Transaccion registrada"
MsgSeleccioneEliminar == "Seleccione una transaccion para eliminar"
MsgPermisoDenegado == "Solo usuarios MASTER pueden eliminar transacciones"
MsgSeleccioneRestaurar == "Seleccione una transaccion para restaurar"
MsgSeleccionePurgar ==
    "Seleccione una transaccion para eliminar definitivamente"

\* an on_medio_change that leaves banco_var as it is
on_medio_change_sin_limpiar(medio, banco) == banco

\* on_medio_change: the value of banco_var after medio_var was written
on_medio_change(medio, banco) == IF medio = "fisico" THEN "" ELSE banco

\* the user picks a value in the "Medio" combobox; the trace runs
\* on_medio_change
set_medio(medio) ==
    /\ pantalla = "main"
    /\ medio_var' = medio
    /\ banco_var' = on_medio_change(medio, banco_var)
    /\ UNCHANGED <<current_user, pantalla, ultimo>>
    /\ SinTablas

\* the user picks a label in the "Banco" combobox, which on_medio_change
\* leaves disabled while medio_var is "fisico"
set_banco(banco_nombre) ==
    /\ pantalla = "main"
    /\ medio_var # "fisico"
    /\ banco_var' = banco_nombre
    /\ UNCHANGED <<current_user, pantalla, medio_var, ultimo>>
    /\ SinTablas

\* the selections the user can make in a tree that lists rows
selecciones(rows) == {<<>>} \cup {<<r.id>> : r \in rows}

\* an UPDATE that sets the flag whatever e is
update_eliminado_siempre(T, tid, e) ==
    {IF r.id = tid THEN [r EXCEPT !.eliminado = 1] ELSE r : r \in T}

\* UPDATE transacciones SET eliminado = e WHERE id = tid
update_eliminado(T, tid, e) ==
    {IF r.id = tid THEN [r EXCEPT !.eliminado = e] ELSE r : r \in T}

\* a permission check that refuses nobody
permiso_denegado_nunca(user) == FALSE

\* delete_transaction: self.current_user and
\* self.current_user["tipo"] != "master"
permiso_denegado(user) == user # <<>> /\ user[1].tipo # "master"

\* an add_transaction without the check "monto <= 0"
add_transaction_sin_minimo(f) ==
    LET monto == float_(f.monto)
        rowid == sqlite_sequence + 1
        fila  == [id |-> rowid, usuario |-> current_user[1].username,
                  tipo |-> f.tipo, monto |-> monto[1], moneda |-> f.moneda,
                  medio |-> medio_var, banco |-> banco_key(banco_var),
                  eliminado |-> 0, fecha |-> f.fecha]
    IN  /\ pantalla = "main"
        /\ UNCHANGED <<usuarios, cuentas_por_cobrar, cuentas_por_pagar,
                       current_user, pantalla>>
        /\ SinFormulario
        /\ IF monto = <<>> \/ current_user = <<>>
           THEN /\ ultimo' = Evento("add_transaction", <<>>, MsgMontoInvalido)
                /\ UNCHANGED <<transacciones, historial_cambios,
                               sqlite_sequence>>
           ELSE /\ Len(historial_cambios) < MaxCambios
                /\ sqlite_sequence < MaxMovimientos
                /\ transacciones' = transacciones \cup {fila}
                /\ sqlite_sequence' = rowid
                /\ historial_cambios' =
                       log_change(current_user[1].username, "insert",
                                  "transacciones", rowid)
                /\ ultimo' =
                       [Evento("add_transaction", <<rowid>>,
                               MsgTransaccionRegistrada)
                           EXCEPT !.registrado[f.moneda][f.tipo] =
                                      @ + monto[1]]

\* add_transaction(): f holds tipo_var, monto_entry, moneda_var, fecha_entry
add_transaction(f) ==
    LET monto == float_(f.monto)
        banco == banco_key(banco_var)
        rowid == sqlite_sequence + 1      \* last_insert_rowid()
        fila  == [id |-> rowid, usuario |-> current_user[1].username,
                  tipo |-> f.tipo, monto |-> monto[1], moneda |-> f.moneda,
                  medio |-> medio_var, banco |-> banco, eliminado |-> 0,
                  fecha |-> f.fecha]
    IN  /\ pantalla = "main"
        /\ UNCHANGED <<usuarios, cuentas_por_cobrar, cuentas_por_pagar,
                       current_user, pantalla>>
        /\ SinFormulario
        /\ IF monto = <<>>
           THEN /\ ultimo' = Evento("add_transaction", <<>>, MsgMontoInvalido)
                /\ UNCHANGED <<transacciones, historial_cambios,
                               sqlite_sequence>>
           ELSE IF monto[1] <= 0
           THEN /\ ultimo' = Evento("add_transaction", <<>>, MsgMontoNoPositivo)
                /\ UNCHANGED <<transacciones, historial_cambios,
                               sqlite_sequence>>
           ELSE IF current_user = <<>>
           THEN /\ ultimo' = Evento("add_transaction", <<>>, "")
                /\ UNCHANGED <<transacciones, historial_cambios,
                               sqlite_sequence>>
           ELSE /\ Len(historial_cambios) < MaxCambios
                /\ sqlite_sequence < MaxMovimientos
                /\ transacciones' = transacciones \cup {fila}
                /\ sqlite_sequence' = rowid
                /\ historial_cambios' =
                       log_change(current_user[1].username, "insert",
                                  "transacciones", rowid)
                /\ ultimo' =
                       [Evento("add_transaction", <<rowid>>,
                               MsgTransaccionRegistrada)
                           EXCEPT !.registrado[f.moneda][f.tipo] =
                                      @ + monto[1]]

\* delete_transaction(): selected is tree.selection(), confirmar the answer
\* to "Eliminar transaccion seleccionada?".  The button is packed for a
\* master only (line 662); the handler is modelled for any actor
delete_transaction(selected, confirmar) ==
    /\ pantalla = "main"
    /\ selected \in selecciones(load_transactions(transacciones))
    /\ UNCHANGED <<usuarios, cuentas_por_cobrar, cuentas_por_pagar,
                   sqlite_sequence, current_user, pantalla>>
    /\ SinFormulario
    /\ IF selected = <<>>
       THEN /\ ultimo' = Evento("delete_transaction", <<>>,
                                MsgSeleccioneEliminar)
            /\ UNCHANGED <<transacciones, historial_cambios>>
       ELSE IF permiso_denegado(current_user)
       THEN /\ ultimo' = Evento("delete_transaction", selected,
                                MsgPermisoDenegado)
            /\ UNCHANGED <<transacciones, historial_cambios>>
       ELSE IF current_user # <<>> /\ confirmar
       THEN /\ Len(historial_cambios) < MaxCambios
            /\ transacciones' = update_eliminado(transacciones, selected[1], 1)
            /\ historial_cambios' =
                   log_change(current_user[1].username, "delete",
                              "transacciones", selected[1])
            /\ ultimo' = Evento("delete_transaction", selected, "")
       ELSE /\ ultimo' = Evento("delete_transaction", <<>>, "")
            /\ UNCHANGED <<transacciones, historial_cambios>>

(***************************************************************************)
(* "Papelera" (open_trash_bin).                                            *)
(***************************************************************************)
\* a menu entry Papelera that is built for every user
open_trash_bin_para_todos ==
    /\ pantalla = "main"
    /\ pantalla' = "papelera"
    /\ UNCHANGED <<current_user, ultimo>>
    /\ SinTablas
    /\ SinFormulario

\* menu Archivo > Papelera, built for a master only.  The trash view has no
\* menu bar (clear_screen destroys every child of the window, the Menu
\* included), so "Volver" is its only way out
open_trash_bin ==
    /\ pantalla = "main"
    /\ current_user # <<>> /\ current_user[1].tipo = "master"
    /\ pantalla' = "papelera"
    /\ UNCHANGED <<current_user, ultimo>>
    /\ SinTablas
    /\ SinFormulario

\* the button "Volver" of the trash view
volver ==
    /\ pantalla = "papelera"
    /\ MainScreen
    /\ UNCHANGED <<current_user, ultimo>>
    /\ SinTablas

\* restore_transaction()
restore_transaction(selected) ==
    /\ pantalla = "papelera"
    /\ selected \in selecciones(load_deleted(transacciones))
    /\ UNCHANGED <<usuarios, cuentas_por_cobrar, cuentas_por_pagar,
                   sqlite_sequence, current_user, pantalla>>
    /\ SinFormulario
    /\ IF selected = <<>>
       THEN /\ ultimo' = Evento("restore_transaction", <<>>,
                                MsgSeleccioneRestaurar)
            /\ UNCHANGED <<transacciones, historial_cambios>>
       ELSE /\ current_user # <<>> => Len(historial_cambios) < MaxCambios
            /\ transacciones' = update_eliminado(transacciones, selected[1], 0)
            /\ historial_cambios' =
                   IF current_user # <<>>
                   THEN log_change(current_user[1].username, "restore",
                                   "transacciones", selected[1])
                   ELSE historial_cambios
            /\ ultimo' = Evento("restore_transaction", selected, "")

\* permanently_delete_transaction(): confirmar is the answer to "Eliminar
\* esta transaccion de forma permanente?"
permanently_delete_transaction(selected, confirmar) ==
    /\ pantalla = "papelera"
    /\ selected \in selecciones(load_deleted(transacciones))
    /\ UNCHANGED <<usuarios, cuentas_por_cobrar, cuentas_por_pagar,
                   sqlite_sequence, current_user, pantalla>>
    /\ SinFormulario
    /\ IF selected = <<>>
       THEN /\ ultimo' = Evento("permanently_delete_transaction", <<>>,
                                MsgSeleccionePurgar)
            /\ UNCHANGED <<transacciones, historial_cambios>>
       ELSE IF confirmar
       THEN /\ current_user # <<>> => Len(historial_cambios) < MaxCambios
            /\ transacciones' = {r \in transacciones : r.id # selected[1]}
            /\ historial_cambios' =
                   IF current_user # <<>>
                   THEN log_change(current_user[1].username, "purge",
                                   "transacciones", selected[1])
                   ELSE historial_cambios
            /\ ultimo' = Evento("permanently_delete_transaction", selected, "")
       ELSE /\ ultimo' = Evento("permanently_delete_transaction", <<>>, "")
            /\ UNCHANGED <<transacciones, historial_cambios>>

(***************************************************************************)
(* Tabs "Cuentas por Cobrar" and "Cuentas por Pagar".                      *)
(***************************************************************************)
MsgMontoCuentaInvalido == "Monto invalido"
MsgFechaInvalida == "Formato de fecha vencimiento invalido"
MsgCompleteCampos == "Complete todos los campos correctamente"
MsgCxcRegistrada == "Cuenta por cobrar registrada"
MsgCxpRegistrada == "Cuenta por pagar registrada"
MsgSeleccioneCxc == "Seleccione una cuenta por cobrar"
MsgSeleccioneCxp == "Seleccione una cuenta por pagar"
MsgCxcPagada == "Cuenta por cobrar marcada como pagada"
MsgCxpPagada == "Cuenta por pagar marcada como pagada"

\* text.split(sep), as a sequence of texts
RECURSIVE split(_, _)
split(s, sep) ==
    IF \A i \in 1..Len(s) : s[i] # sep THEN <<s>>
    ELSE LET i == CHOOSE k \in 1..Len(s) :
                      s[k] = sep /\ \A j \in 1..(k - 1) : s[j] # sep
         IN  <<SubSeq(s, 1, i - 1)>> \o split(SubSeq(s, i + 1, Len(s)), sep)

son_digitos(s) == s # <<>> /\ \A i \in 1..Len(s) : es_digito(s[i])

es_bisiesto(y) == (y % 4 = 0 /\ y % 100 # 0) \/ y % 400 = 0

dias_del_mes(y, m) ==
    IF m = 2 THEN (IF es_bisiesto(y) THEN 29 ELSE 28)
    ELSE IF m \in {4, 6, 9, 11} THEN 30 ELSE 31

\* datetime.strptime(text, "%Y-%m-%d") does not raise: four digits of year,
\* one or two of month and of day, and a date of the calendar
strptime_ok(text) ==
    LET p == split(text, "-")
    IN  /\ Len(p) = 3
        /\ \A i \in 1..3 : son_digitos(p[i])
        /\ Len(p[1]) = 4 /\ Len(p[2]) \in 1..2 /\ Len(p[3]) \in 1..2
        /\ valor_digitos(p[1]) >= 1
        /\ valor_digitos(p[2]) \in 1..12
        /\ valor_digitos(p[3]) \in
               1..dias_del_mes(valor_digitos(p[1]), valor_digitos(p[2]))

\* checks that accept a blank cliente / proveedor
validar_cuenta_sin_nombre(nombre, monto, fecha_venc) ==
    IF monto = <<>> THEN MsgMontoCuentaInvalido
    ELSE IF ~strptime_ok(fecha_venc) THEN MsgFechaInvalida
    ELSE IF monto[1] <= 0 THEN MsgCompleteCampos
    ELSE ""

\* the checks of add_cxc / add_cxp, in their order: "" when the row is
\* inserted, the warning otherwise.  nombre is cliente or proveedor
validar_cuenta(nombre, monto, fecha_venc) ==
    IF monto = <<>> THEN MsgMontoCuentaInvalido
    ELSE IF ~strptime_ok(fecha_venc) THEN MsgFechaInvalida
    ELSE IF monto[1] <= 0 \/ nombre = <<>> THEN MsgCompleteCampos
    ELSE ""

\* the row INSERTed by add_cxc / add_cxp; estado takes its DEFAULT
fila_cuenta(tabla, nombre, monto, moneda, fecha_venc) ==
    [id |-> Cardinality(tabla) + 1, nombre |-> nombre, monto |-> monto[1],
     moneda |-> moneda, fecha_vencimiento |-> fecha_venc,
     estado |-> "pendiente"]

\* an UPDATE that writes 'vencida' over 'pagada', and 'pagada' otherwise
update_pagada_vencida(tabla, cid) ==
    {IF c.id = cid
     THEN [c EXCEPT !.estado = IF @ = "pagada" THEN "vencida" ELSE "pagada"]
     ELSE c : c \in tabla}

\* an UPDATE that flips estado between 'pendiente' and 'pagada'
update_pagada_alterna(tabla, cid) ==
    {IF c.id = cid
     THEN [c EXCEPT !.estado = IF @ = "pagada" THEN "pendiente" ELSE "pagada"]
     ELSE c : c \in tabla}

\* UPDATE <tabla> SET estado = 'pagada' WHERE id = cid
update_pagada(tabla, cid) ==
    {IF c.id = cid THEN [c EXCEPT !.estado = "pagada"] ELSE c : c \in tabla}

\* add_cxc(): f holds cliente_entry, monto_entry, moneda_var, venc_entry
add_cxc(f) ==
    LET cliente    == strip(f.nombre)
        monto      == float_(f.monto)
        fecha_venc == strip(f.fecha_venc)
        error      == validar_cuenta(cliente, monto, fecha_venc)
    IN  /\ pantalla = "main"
        /\ UNCHANGED <<usuarios, transacciones, cuentas_por_pagar,
                       historial_cambios, sqlite_sequence, current_user,
                       pantalla>>
        /\ SinFormulario
        /\ IF error # ""
           THEN /\ ultimo' = Evento("add_cxc", <<>>, error)
                /\ UNCHANGED cuentas_por_cobrar
           ELSE /\ Cardinality(cuentas_por_cobrar) < MaxCuentas
                /\ cuentas_por_cobrar' = cuentas_por_cobrar \cup
                       {fila_cuenta(cuentas_por_cobrar, cliente, monto,
                                    f.moneda, fecha_venc)}
                /\ ultimo' = Evento("add_cxc",
                                    <<Cardinality(cuentas_por_cobrar) + 1>>,
                                    MsgCxcRegistrada)

\* mark_paid_cxc()
mark_paid_cxc(selected) ==
    /\ pantalla = "main"
    /\ selected \in selecciones(cuentas_por_cobrar)
    /\ UNCHANGED <<usuarios, transacciones, cuentas_por_pagar,
                   historial_cambios, sqlite_sequence, current_user, pantalla>>
    /\ SinFormulario
    /\ IF selected = <<>>
       THEN /\ ultimo' = Evento("mark_paid_cxc", <<>>, MsgSeleccioneCxc)
            /\ UNCHANGED cuentas_por_cobrar
       ELSE /\ cuentas_por_cobrar' = update_pagada(cuentas_por_cobrar,
                                                   selected[1])
            /\ ultimo' = Evento("mark_paid_cxc", selected, MsgCxcPagada)

\* add_cxp(): f holds proveedor_entry, monto_entry, moneda_var, venc_entry
add_cxp(f) ==
    LET proveedor  == strip(f.nombre)
        monto      == float_(f.monto)
        fecha_venc == strip(f.fecha_venc)
        error      == validar_cuenta(proveedor, monto, fecha_venc)
    IN  /\ pantalla = "main"
        /\ UNCHANGED <<usuarios, transacciones, cuentas_por_cobrar,
                       historial_cambios, sqlite_sequence, current_user,
                       pantalla>>
        /\ SinFormulario
        /\ IF error # ""
           THEN /\ ultimo' = Evento("add_cxp", <<>>, error)
                /\ UNCHANGED cuentas_por_pagar
           ELSE /\ Cardinality(cuentas_por_pagar) < MaxCuentas
                /\ cuentas_por_pagar' = cuentas_por_pagar \cup
                       {fila_cuenta(cuentas_por_pagar, proveedor, monto,
                                    f.moneda, fecha_venc)}
                /\ ultimo' = Evento("add_cxp",
                                    <<Cardinality(cuentas_por_pagar) + 1>>,
                                    MsgCxpRegistrada)

\* a mark_paid_cxp without the check "not selected"
mark_paid_cxp_sin_aviso(selected) ==
    /\ pantalla = "main"
    /\ selected \in selecciones(cuentas_por_pagar)
    /\ UNCHANGED <<usuarios, transacciones, cuentas_por_cobrar,
                   historial_cambios, sqlite_sequence, current_user, pantalla>>
    /\ SinFormulario
    /\ cuentas_por_pagar' =
           IF selected = <<>> THEN cuentas_por_pagar
           ELSE update_pagada(cuentas_por_pagar, selected[1])
    /\ ultimo' = Evento("mark_paid_cxp", selected, MsgCxpPagada)

\* mark_paid_cxp()
mark_paid_cxp(selected) ==
    /\ pantalla = "main"
    /\ selected \in selecciones(cuentas_por_pagar)
    /\ UNCHANGED <<usuarios, transacciones, cuentas_por_cobrar,
                   historial_cambios, sqlite_sequence, current_user, pantalla>>
    /\ SinFormulario
    /\ IF selected = <<>>
       THEN /\ ultimo' = Evento("mark_paid_cxp", <<>>, MsgSeleccioneCxp)
            /\ UNCHANGED cuentas_por_pagar
       ELSE /\ cuentas_por_pagar' = update_pagada(cuentas_por_pagar,
                                                  selected[1])
            /\ ultimo' = Evento("mark_paid_cxp", selected, MsgCxpPagada)

(***************************************************************************)
(* The main thread.  The program starts no thread: every handler, every    *)
(* timer callback and every dialog runs on the thread of mainloop().  The  *)
(* steps below follow that thread through a handler call by call: a store  *)
(* operation (DB.execute, DB.query), a modal messagebox, a copy of         *)
(* finanzas.db.  What the store operations write is modelled by the        *)
(* handlers above, which run a handler as one step; here the store is left *)
(* alone and only the order of the calls is followed.                      *)
(***************************************************************************)
\* login() with a wrong password: get_user, showerror
ProgramaLogin == <<"DB.query", "messagebox">>

\* load_transactions(): the rows, then six sums
ProgramaLoadTransactions == [i \in 1..7 |-> "DB.query"]

\* add_transaction() of a valid form: INSERT, SELECT last_insert_rowid(),
\* log_change, showinfo, load_transactions
ProgramaAddTransaction ==
    <<"DB.execute", "DB.execute", "DB.execute", "messagebox">>
        \o ProgramaLoadTransactions

\* backup_manual(): the copy, then showinfo or showerror
ProgramaBackupManual == <<"backup_database", "messagebox">>

Programas == {ProgramaLogin, ProgramaAddTransaction, ProgramaBackupManual}

\* the innermost frame
tope(p) == IF p = <<>> THEN "mainloop" ELSE p[Len(p)]

\* a timer callback that another thread runs
despacha_after_otro_hilo(p) == TRUE

\* Tk runs a timer callback from an event loop of the main thread: mainloop,
\* or the loop a modal messagebox runs while it is open
despacha_after(p) == tope(p) \in {"mainloop", "messagebox"}

\* the store and the session are as they were, and no handler is running
Quieto == pila = <<>> /\ UNCHANGED hilo

HiloInicial ==
    /\ pila = <<>>
    /\ programa = <<>>
    /\ lock = FALSE
    /\ after = "armado"
    /\ respaldos = 1

\* mainloop() hands a click to its handler; a messagebox that is open grabs
\* the input, so no other handler starts until it is closed
Despachar ==
    \E p \in Programas :
        /\ pila = <<>>
        /\ Head(p) = "backup_database" => respaldos < MaxRespaldos
        /\ pila' = <<"handler">>
        /\ programa' = p
        /\ UNCHANGED <<lock, after, respaldos, datos>>

\* DB.execute: with cls._lock, then c.execute(sql, params)
DBExecute ==
    /\ tope(pila) = "handler"
    /\ programa # <<>> /\ Head(programa) = "DB.execute"
    /\ ~lock
    /\ lock' = TRUE
    /\ pila' = pila \o <<"DB.execute", "c.execute">>
    /\ programa' = Tail(programa)
    /\ UNCHANGED <<after, respaldos, datos>>

\* DB.query: with cls._lock, then c.execute(sql, params)
DBQuery ==
    /\ tope(pila) = "handler"
    /\ programa # <<>> /\ Head(programa) = "DB.query"
    /\ ~lock
    /\ lock' = TRUE
    /\ pila' = pila \o <<"DB.query", "c.execute">>
    /\ programa' = Tail(programa)
    /\ UNCHANGED <<after, respaldos, datos>>

\* DB.execute: cls.connect().commit()
Commit ==
    /\ Len(pila) >= 2
    /\ pila[Len(pila)] = "c.execute" /\ pila[Len(pila) - 1] = "DB.execute"
    /\ pila' = [pila EXCEPT ![Len(pila)] = "commit"]
    /\ UNCHANGED <<programa, lock, after, respaldos, datos>>

\* DB.query: c.fetchall()
Fetchall ==
    /\ Len(pila) >= 2
    /\ pila[Len(pila)] = "c.execute" /\ pila[Len(pila) - 1] = "DB.query"
    /\ pila' = [pila EXCEPT ![Len(pila)] = "fetchall"]
    /\ UNCHANGED <<programa, lock, after, respaldos, datos>>

\* DB.execute and DB.query return: the with block releases the lock
DBRetorna ==
    /\ tope(pila) \in {"commit", "fetchall"}
    /\ pila' = SubSeq(pila, 1, Len(pila) - 2)
    /\ lock' = FALSE
    /\ UNCHANGED <<programa, after, respaldos, datos>>

\* messagebox.showinfo / showwarning / showerror opens
Messagebox ==
    /\ tope(pila) = "handler"
    /\ programa # <<>> /\ Head(programa) = "messagebox"
    /\ pila' = Append(pila, "messagebox")
    /\ programa' = Tail(programa)
    /\ UNCHANGED <<lock, after, respaldos, datos>>

\* the user closes the messagebox
MessageboxRetorna ==
    /\ tope(pila) = "messagebox"
    /\ pila' = SubSeq(pila, 1, Len(pila) - 1)
    /\ UNCHANGED <<programa, lock, after, respaldos, datos>>

\* backup_manual(): backup_database() starts shutil.copy2
BackupManual ==
    /\ tope(pila) = "handler"
    /\ programa # <<>> /\ Head(programa) = "backup_database"
    /\ pila' = Append(pila, "backup_database")
    /\ programa' = Tail(programa)
    /\ UNCHANGED <<lock, after, respaldos, datos>>

\* the hour of self.after(60 * 60 * 1000, ...) has passed
Vence ==
    /\ after = "armado"
    /\ after' = "vencido"
    /\ UNCHANGED <<pila, programa, lock, respaldos, datos>>

\* backup_periodic(): backup_database() starts shutil.copy2; DB._lock is
\* not taken
BackupPeriodic ==
    /\ after = "vencido"
    /\ despacha_after(pila)
    /\ respaldos < MaxRespaldos
    /\ after' = "corriendo"
    /\ pila' = pila \o <<"backup_periodic", "backup_database">>
    /\ UNCHANGED <<programa, lock, respaldos, datos>>

\* backup_database() returns: the copy is in the folder backups
BackupDatabaseRetorna ==
    /\ tope(pila) = "backup_database"
    /\ pila' = SubSeq(pila, 1, Len(pila) - 1)
    /\ respaldos' = respaldos + 1
    /\ UNCHANGED <<programa, lock, after, datos>>

\* backup_periodic() arms the timer again and returns
BackupPeriodicRetorna ==
    /\ tope(pila) = "backup_periodic"
    /\ pila' = SubSeq(pila, 1, Len(pila) - 1)
    /\ after' = "armado"
    /\ UNCHANGED <<programa, lock, respaldos, datos>>

\* the handler returns to the event loop
HandlerRetorna ==
    /\ tope(pila) = "handler"
    /\ programa = <<>>
    /\ pila' = <<>>
    /\ UNCHANGED <<programa, lock, after, respaldos, datos>>

(***************************************************************************)
(* Initial states.  init_db() creates the tables only when they are        *)
(* missing, so a run starts from whatever an earlier run left in           *)
(* finanzas.db: InitNuevo is the first run ever, InitConUsuarios a later   *)
(* run, after a master and a standard user were registered (that store is *)
(* reachable from InitNuevo, see UsuariosBaseAlcanzable).                  *)
(***************************************************************************)
ClaveA == <<"a", "b", "c", "d">>
ClaveB == <<"w", "x", "y", "z">>

UsuariosBase ==
    {[id |-> 1, nombre |-> <<"N">>, apellido |-> <<"A">>, cedula |-> <<"1">>,
      username |-> <<"a">>, password |-> hash_password(ClaveA),
      tipo |-> "master"],
     [id |-> 2, nombre |-> <<"N">>, apellido |-> <<"A">>, cedula |-> <<"2">>,
      username |-> <<"b">>, password |-> hash_password(ClaveB),
      tipo |-> "estandar"]}

InitCon(us) ==
    /\ usuarios = us
    /\ transacciones = {}
    /\ cuentas_por_cobrar = {}
    /\ cuentas_por_pagar = {}
    /\ historial_cambios = <<>>
    /\ sqlite_sequence = 0
    /\ current_user = <<>>
    /\ pantalla \in create_login_screen(us)
    /\ medio_var = "fisico"
    /\ banco_var = ""
    /\ HiloInicial
    /\ ultimo = [op |-> "init", arg |-> <<>>, msg |-> "",
                 antes |-> [usuarios |-> us, transacciones |-> {},
                            cuentas_por_cobrar |-> {},
                            cuentas_por_pagar |-> {},
                            historial_cambios |-> <<>>,
                            current_user |-> <<>>],
                 registrado |-> [m \in Monedas |->
                                    [entrada |-> 0, salida |-> 0]]]

InitNuevo == InitCon({})

InitConUsuarios == InitCon(UsuariosBase)

Init == InitNuevo

(***************************************************************************)
(* What the user types and picks.                                          *)
(***************************************************************************)
UsuarioTextos == {<<>>, <<"a">>, <<" ", "a">>, <<"b">>}

PasswordTextos == {<<>>, <<"a", "b", "c">>, ClaveA, ClaveB}

Registro(nombre, cedula, username, password) ==
    [nombre |-> nombre, apellido |-> <<"A">>, cedula |-> cedula,
     username |-> username, password |-> password]

\* forms of the registration screens: three users that do not collide, a
\* username taken up to surrounding blanks, a cedula taken, and forms with
\* a blank field or a short password
RegistroTextos ==
    {Registro(<<"N">>, <<"1">>, <<"a">>, ClaveA),
     Registro(<<"N">>, <<"2">>, <<"b">>, ClaveB),
     Registro(<<"N">>, <<"3">>, <<"c">>, ClaveA),
     Registro(<<"N">>, <<"3">>, <<"a", " ">>, ClaveB),
     Registro(<<"N">>, <<"1">>, <<"c">>, ClaveB),
     Registro(<<" ">>, <<"2">>, <<"a">>, ClaveB),
     Registro(<<"N">>, <<"3">>, <<"a">>, <<"a", "b", "c">>),
     Registro(<<"N">>, <<"3">>, <<"c">>, <<>>),
     Registro(<<"N">>, <<" ">>, <<"c">>, ClaveA),
     Registro(<<"N">>, <<"3">>, <<" ">>, ClaveA),
     [Registro(<<"N">>, <<"3">>, <<"c">>, ClaveA) EXCEPT !.apellido = <<>>]}

Tipos == {"master", "estandar"}

\* logins of the later run: the two users, and a wrong password
Credenciales == {<<<<"a">>, ClaveA>>, <<<<"b">>, ClaveB>>, <<<<"a">>, ClaveB>>}

Medios == {"fisico", "digital"}

BancoNombres == {banco_labels[k] : k \in DOMAIN banco_labels}

Movimiento(tipo, monto, moneda, fecha) ==
    [tipo |-> tipo, monto |-> monto, moneda |-> moneda, fecha |-> fecha]

\* forms of the tab "Transacciones": every direction in every currency, two
\* amounts, and amounts that are refused
Movimientos ==
    {Movimiento("entrada", <<"2">>, "Bs", Hoy),
     Movimiento("salida", <<"1">>, "Bs", Hoy),
     Movimiento("entrada", <<"1">>, "USD", Hoy),
     Movimiento("salida", <<"2">>, "USD", Hoy),
     Movimiento("entrada", <<"0">>, "Bs", Hoy),
     Movimiento("salida", <<"-", "1">>, "USD", Hoy),
     Movimiento("entrada", <<"x">>, "Bs", Hoy)}

\* forms of the bank slice: both directions, both currencies, two dates
MovimientosBancos ==
    {Movimiento("entrada", <<"2">>, "Bs", Hoy),
     Movimiento("salida", <<"1">>, "USD", Hoy - 8)}

\* forms of the comparative slice: a movement of today, one on each edge of
\* the two windows and one older than both
MovimientosFechas ==
    {Movimiento("entrada", <<"2">>, "Bs", Hoy),
     Movimiento("salida", <<"1">>, "Bs", Hoy - DiasSemana),
     Movimiento("entrada", <<"1">>, "USD", Hoy - DiasMes),
     Movimiento("salida", <<"2">>, "USD", Hoy - DiasMes - 1)}

\* forms of the obligation slice
MovimientosCuentas ==
    {Movimiento("entrada", <<"2">>, "Bs", Hoy)}

VencValida == <<"2", "0", "2", "7", "-", "0", "1", "-", "3", "1">>

Cuenta(nombre, monto, moneda, fecha_venc) ==
    [nombre |-> nombre, monto |-> monto, moneda |-> moneda,
     fecha_venc |-> fecha_venc]

\* forms of the tab "Cuentas por Cobrar": an amount in each currency, and a
\* date, a blank name and an amount that are refused
CuentasCobrar ==
    {Cuenta(<<"c">>, <<"2">>, "Bs", VencValida),
     Cuenta(<<"c">>, <<"1">>, "USD", VencValida),
     Cuenta(<<"c">>, <<"1">>, "Bs",
            <<"2", "0", "2", "7", "-", "0", "2", "-", "3", "0">>),
     Cuenta(<<" ">>, <<"1">>, "Bs", VencValida),
     Cuenta(<<"c">>, <<"x">>, "Bs", VencValida)}

\* forms of the tab "Cuentas por Pagar": an amount in each currency, and an
\* amount and a date that are refused
CuentasPagar ==
    {Cuenta(<<"p">>, <<"1">>, "Bs", VencValida),
     Cuenta(<<"p">>, <<"2">>, "USD", VencValida),
     Cuenta(<<"p">>, <<"0">>, "USD", VencValida),
     Cuenta(<<"p">>, <<"1">>, "Bs", <<"3", "1", "/", "0", "1">>)}

(***************************************************************************)
(* Actions and specifications.                                             *)
(***************************************************************************)
Login == \E u \in UsuarioTextos, p \in PasswordTextos : login(u, p) /\ Quieto

LoginBase == \E c \in Credenciales : login(c[1], c[2]) /\ Quieto

LoginMaster == login(<<"a">>, ClaveA) /\ Quieto

LoginEstandar == login(<<"b">>, ClaveB) /\ Quieto

Logout == logout /\ Quieto

AbrirRegistroEstandar == abrir_registro_estandar /\ Quieto

AbrirRegistroMenu == abrir_registro_menu /\ Quieto

CancelarRegistro == cancelar_registro /\ Quieto

RegisterUser ==
    \E f \in RegistroTextos, radio \in Tipos :
        register_user(f, radio) /\ Quieto

SetMedio == \E m \in Medios : set_medio(m) /\ Quieto

SetBanco == \E b \in BancoNombres : set_banco(b) /\ Quieto

AddTransaction == \E f \in Movimientos : add_transaction(f) /\ Quieto

AddTransactionBancos == \E f \in MovimientosBancos : add_transaction(f) /\ Quieto

AddTransactionCuentas == \E f \in MovimientosCuentas : add_transaction(f) /\ Quieto

AddTransactionFechas == \E f \in MovimientosFechas : add_transaction(f) /\ Quieto

DeleteTransaction ==
    \E sel \in selecciones(transacciones), c \in BOOLEAN :
        delete_transaction(sel, c) /\ Quieto

OpenTrashBin == open_trash_bin /\ Quieto

Volver == volver /\ Quieto

RestoreTransaction ==
    \E sel \in selecciones(transacciones) : restore_transaction(sel) /\ Quieto

PermanentlyDeleteTransaction ==
    \E sel \in selecciones(transacciones), c \in BOOLEAN :
        permanently_delete_transaction(sel, c) /\ Quieto

AddCxc == \E f \in CuentasCobrar : add_cxc(f) /\ Quieto

MarkPaidCxc ==
    \E sel \in selecciones(cuentas_por_cobrar) : mark_paid_cxc(sel) /\ Quieto

AddCxp == \E f \in CuentasPagar : add_cxp(f) /\ Quieto

MarkPaidCxp ==
    \E sel \in selecciones(cuentas_por_pagar) : mark_paid_cxp(sel) /\ Quieto

\* the whole program
Next ==
    \/ Login \/ Logout
    \/ AbrirRegistroEstandar \/ AbrirRegistroMenu \/ CancelarRegistro
    \/ RegisterUser
    \/ SetMedio \/ SetBanco \/ AddTransaction \/ DeleteTransaction
    \/ OpenTrashBin \/ Volver \/ RestoreTransaction
    \/ PermanentlyDeleteTransaction
    \/ Despachar \/ DBExecute \/ DBQuery \/ Commit \/ Fetchall \/ DBRetorna
    \/ Messagebox \/ MessageboxRetorna \/ BackupManual
    \/ Vence \/ BackupPeriodic \/ BackupDatabaseRetorna
    \/ BackupPeriodicRetorna \/ HandlerRetorna
    \/ AddCxc \/ MarkPaidCxc \/ AddCxp \/ MarkPaidCxp

Spec == Init /\ [][Next]_vars

\* Credential Store: the first run, users and sessions
NextUsuarios ==
    \/ Login \/ Logout
    \/ AbrirRegistroEstandar \/ AbrirRegistroMenu \/ CancelarRegistro
    \/ RegisterUser

SpecUsuarios == InitNuevo /\ [][NextUsuarios]_vars

\* Ledger Store: movements in cash, their trash and their audit log
NextLibro ==
    \/ LoginBase \/ Logout
    \/ AddTransaction \/ DeleteTransaction
    \/ OpenTrashBin \/ Volver \/ RestoreTransaction
    \/ PermanentlyDeleteTransaction

SpecLibro == InitConUsuarios /\ [][NextLibro]_vars

\* Ledger Store: channels, banks and dates
NextBancos ==
    \/ LoginMaster
    \/ SetMedio \/ SetBanco \/ AddTransactionBancos \/ DeleteTransaction
    \/ OpenTrashBin \/ Volver
    \/ PermanentlyDeleteTransaction

SpecBancos == InitConUsuarios /\ [][NextBancos]_vars

\* Obligation Store, with the movements the general balance adds to
NextCuentas ==
    \/ LoginEstandar
    \/ AddTransactionCuentas \/ DeleteTransaction
    \/ AddCxc \/ MarkPaidCxc \/ AddCxp \/ MarkPaidCxp

SpecCuentas == InitConUsuarios /\ [][NextCuentas]_vars

\* Ledger Store: the tab "Comparativo" of a master
NextComparativo ==
    \/ LoginMaster
    \/ AddTransactionFechas \/ DeleteTransaction

SpecComparativo == InitConUsuarios /\ [][NextComparativo]_vars

\* the main thread: store operations, dialogs and backups, call by call
NextRespaldo ==
    \/ Despachar \/ DBExecute \/ DBQuery \/ Commit \/ Fetchall \/ DBRetorna
    \/ Messagebox \/ MessageboxRetorna \/ BackupManual
    \/ Vence \/ BackupPeriodic \/ BackupDatabaseRetorna
    \/ BackupPeriodicRetorna \/ HandlerRetorna

SpecRespaldo == InitConUsuarios /\ [][NextRespaldo]_vars

(***************************************************************************)
(* Properties.  The operations of the specification are the handlers:      *)
(* record = add_transaction, softDelete = delete_transaction, restore =    *)
(* restore_transaction, purge = permanently_delete_transaction, listActive *)
(* = load_transactions, register = register_user, authenticate = login,   *)
(* markPaid = mark_paid_cxc / mark_paid_cxp.  The error kinds are the      *)
(* messages the handlers show.                                             *)
(***************************************************************************)
ValidationError ==
    {MsgCamposObligatorios, MsgPasswordCorta, MsgMontoInvalido,
     MsgMontoNoPositivo, MsgMontoCuentaInvalido, MsgFechaInvalida,
     MsgCompleteCampos}

DuplicateKey == {MsgUsuarioExiste, MsgNoSePudoRegistrar}

InvalidCredentials == {MsgFaltanCredenciales, MsgCredencialesIncorrectas}

PermissionDenied == {MsgPermisoDenegado}

\* the store of a later run holds exactly the two users of InitConUsuarios
UsuariosBaseAlcanzable == usuarios = UsuariosBase

\* the handler op has just run on the selected row and was not refused
Hecho(op) == ultimo.op = op /\ ultimo.arg # <<>> /\ ultimo.msg = ""

\* this step is a run of the handler op on a selected row
Paso(op) == ultimo' # ultimo /\ ultimo'.op = op /\ ultimo'.arg # <<>>

\* every figure the program computes from the three tables
agregados(T, cxc, cxp) ==
    [moneda  |-> [m \in Monedas |-> balance_moneda(T, m)],
     total   |-> balance_total(T),
     banco   |-> [m \in Monedas |-> [b \in Bancos |-> balance_banco(T, m, b)]],
     ventana |-> [m \in Monedas |->
                     [d \in Desdes |-> obtener_balance(T, m, d)]],
     general |-> [m \in Monedas |-> balance_general(T, cxc, cxp, m)]]

\* the audit log holds nothing but "insert": no softDelete, restore or purge
\* has happened
SoloRegistros ==
    \A i \in 1..Len(historial_cambios) : historial_cambios[i].accion = "insert"

\* C1: after any sequence of successful record calls and no soft-delete, the
\* balance of each currency is the sum A of the amounts recorded as entrada
\* in that currency minus the sum B of those recorded as salida.
C1_BalanceEsEntradasMenosSalidas ==
    SoloRegistros =>
        \A m \in Monedas :
            balance_moneda(transacciones, m) =
                ultimo.registrado[m].entrada - ultimo.registrado[m].salida

\* an entrada of 2 and a salida of 1 were recorded in Bs: the balance is 1
C1_Testigo ==
    /\ SoloRegistros
    /\ Len(historial_cambios) = 2
    /\ ultimo.op = "add_transaction"
    /\ ultimo.registrado["Bs"] = [entrada |-> 2, salida |-> 1]
    /\ balance_moneda(transacciones, "Bs") = 1

\* C2: a soft-deleted movement contributes to no aggregate (per currency,
\* per bank, per date window, general, total) and is absent from listActive,
\* while its row is still in the table and in the scan of deleted rows; a
\* successful softDelete leaves its row in that condition, and only
\* purge(id) takes such a row out of the table.
C2_EliminadoFueraDeAgregados ==
    /\ [](/\ \A r \in transacciones :
                r.eliminado = 1 =>
                    /\ r \notin load_transactions(transacciones)
                    /\ r \in load_deleted(transacciones)
                    /\ agregados(transacciones, cuentas_por_cobrar,
                                 cuentas_por_pagar)
                       = agregados(transacciones \ {r}, cuentas_por_cobrar,
                                   cuentas_por_pagar)
          /\ Hecho("delete_transaction") =>
                \E r \in transacciones :
                    r.id = ultimo.arg[1] /\ r.eliminado = 1)
    /\ [][\A r \in transacciones :
             (r.eliminado = 1 /\ \A q \in transacciones' : q.id # r.id) =>
                 /\ Paso("permanently_delete_transaction")
                 /\ ultimo'.arg = <<r.id>>]_vars

\* a movement held in a bank was just soft-deleted: the figure of its bank
\* has changed, and the row is still there
C2_Testigo ==
    /\ Hecho("delete_transaction")
    /\ \E r \in transacciones :
           /\ r.id = ultimo.arg[1] /\ r.eliminado = 1 /\ r.banco \in Bancos
           /\ balance_banco(transacciones, r.moneda, r.banco)
              # balance_banco(ultimo.antes.transacciones, r.moneda, r.banco)

\* C3: restore(id) right after a successful softDelete(id) gives back the
\* ledger as it was before the softDelete: same rows, same listActive, same
\* value of every aggregate; the audit log alone has grown, by two entries.
C3_EliminarRestaurarIdaYVuelta ==
    [][(Hecho("delete_transaction") /\ Paso("restore_transaction")
        /\ ultimo'.arg = ultimo.arg) =>
           LET antes == ultimo.antes
           IN  /\ transacciones' = antes.transacciones
               /\ load_transactions(transacciones')
                  = load_transactions(antes.transacciones)
               /\ agregados(transacciones', cuentas_por_cobrar',
                            cuentas_por_pagar')
                  = agregados(antes.transacciones, antes.cuentas_por_cobrar,
                              antes.cuentas_por_pagar)
               /\ Len(historial_cambios') = Len(antes.historial_cambios) + 2
               /\ SubSeq(historial_cambios', 1, Len(antes.historial_cambios))
                  = antes.historial_cambios]_vars

\* a movement was soft-deleted and then restored, and it is listed again
C3_Testigo ==
    /\ ultimo.op = "restore_transaction" /\ ultimo.arg # <<>>
    /\ Len(historial_cambios) >= 2
    /\ LET n == Len(historial_cambios)
       IN  /\ historial_cambios[n - 1].accion = "delete"
           /\ historial_cambios[n].accion = "restore"
           /\ historial_cambios[n - 1].registro_id = ultimo.arg[1]
           /\ historial_cambios[n].registro_id = ultimo.arg[1]
    /\ \E r \in load_transactions(transacciones) : r.id = ultimo.arg[1]

\* the table after markPaid(cid), as the specification states it: the row
\* cid has status paid, every other field and every other row is unchanged
pagada_solo(tabla, cid) ==
    {IF c.id = cid
     THEN [id |-> c.id, nombre |-> c.nombre, monto |-> c.monto,
           moneda |-> c.moneda, fecha_vencimiento |-> c.fecha_vencimiento,
           estado |-> "pagada"]
     ELSE c : c \in tabla}

\* C4: markPaid is idempotent, for receivables and for payables: a call
\* changes nothing but the status of the selected row, which becomes paid,
\* and a call on a row that is already paid changes nothing in the store.
C4_MarcarPagadaIdempotente ==
    [][/\ Paso("mark_paid_cxc") =>
            /\ cuentas_por_cobrar'
               = pagada_solo(cuentas_por_cobrar, ultimo'.arg[1])
            /\ UNCHANGED <<usuarios, transacciones, cuentas_por_pagar,
                           historial_cambios>>
            /\ (\E c \in cuentas_por_cobrar :
                    c.id = ultimo'.arg[1] /\ c.estado = "pagada")
               => UNCHANGED cuentas_por_cobrar
       /\ Paso("mark_paid_cxp") =>
            /\ cuentas_por_pagar'
               = pagada_solo(cuentas_por_pagar, ultimo'.arg[1])
            /\ UNCHANGED <<usuarios, transacciones, cuentas_por_cobrar,
                           historial_cambios>>
            /\ (\E c \in cuentas_por_pagar :
                    c.id = ultimo'.arg[1] /\ c.estado = "pagada")
               => UNCHANGED cuentas_por_pagar]_vars

\* markPaid has run on a receivable that was already paid, next to a payable
\* that is paid too
C4_Testigo ==
    /\ ultimo.op = "mark_paid_cxc" /\ ultimo.arg # <<>>
    /\ \E c \in ultimo.antes.cuentas_por_cobrar :
           c.id = ultimo.arg[1] /\ c.estado = "pagada"
    /\ cuentas_por_cobrar = ultimo.antes.cuentas_por_cobrar
    /\ \E c \in cuentas_por_pagar : c.estado = "pagada"

\* the form names a username or a cedula of a stored user
Duplicado(f) ==
    \E u \in usuarios :
        u.username = strip(f.username) \/ u.cedula = strip(f.cedula)

\* no required field of the form is blank and its password has 4 characters
CamposValidos(f) ==
    /\ \A t \in {strip(f.nombre), strip(f.apellido), strip(f.cedula),
                 strip(f.username), f.password} : t # <<>>
    /\ Len(f.password) >= MinPasswordLen

\* C5 (as the code has it): register with a username or a cedula of a stored
\* user adds no row and leaves every stored row unchanged; it fails with
\* DuplicateKey when the form is otherwise valid, and with ValidationError
\* when a required field is blank or the password is shorter than 4.
C5_RegistroDuplicadoRechazado ==
    [][\A f \in RegistroTextos, radio \in Tipos :
          (Duplicado(f) /\ register_user(f, radio)) =>
              /\ usuarios' = usuarios
              /\ ultimo'.op = "register_user"
              /\ IF CamposValidos(f)
                 THEN ultimo'.msg \in DuplicateKey
                 ELSE ultimo'.msg \in ValidationError]_vars

\* a registration with a taken username and valid fields was just refused
C5_Testigo ==
    /\ ultimo.op = "register_user" /\ ultimo.msg = MsgUsuarioExiste
    /\ usuarios = ultimo.antes.usuarios
    /\ Cardinality(usuarios) = 2

\* C5 as the specification states it: register with a username or a cedula
\* of a stored user fails with DuplicateKey, whatever the other fields are.
C5_DuplicadoSiempreDuplicateKey ==
    [][\A f \in RegistroTextos, radio \in Tipos :
          (Duplicado(f) /\ register_user(f, radio)) =>
              /\ usuarios' = usuarios
              /\ ultimo'.msg \in DuplicateKey]_vars

\* C6: authenticate(username, password), username being the text of the
\* entry without its surrounding blanks, succeeds and makes the matching row
\* the current user if and only if a row of usuarios has that username and
\* a stored hash equal to the hash of the password; in every other case it
\* fails with InvalidCredentials and the current user is unchanged.
C6_AutenticarSiYSoloSi ==
    [][\A u \in UsuarioTextos, p \in PasswordTextos :
          login(u, p) =>
              LET coinciden == {r \in usuarios :
                                   /\ r.username = strip(u)
                                   /\ r.password = hash_password(p)}
              IN  IF coinciden # {}
                  THEN /\ \E r \in coinciden : current_user' = <<r>>
                       /\ ultimo'.msg = MsgBienvenido
                       /\ pantalla' = "main"
                  ELSE /\ ultimo'.msg \in InvalidCredentials
                       /\ current_user' = current_user
                       /\ pantalla' = pantalla]_vars

\* the standard user of the later run has logged in, the store holding two
\* users
C6_Testigo ==
    /\ UsuariosBaseAlcanzable
    /\ ultimo.op = "login" /\ ultimo.msg = MsgBienvenido
    /\ current_user # <<>> /\ current_user[1].username = <<"b">>
    /\ ultimo.antes.current_user = <<>>

\* the signed amount of a movement
con_signo(r) == IF r.tipo = "entrada" THEN r.monto ELSE 0 - r.monto

\* C7: every movement whose channel is cash is stored with bank = none; when
\* active it is counted in the balance of its currency and in the
\* bank-filtered balance of none of the three banks.
C7_EfectivoSinBanco ==
    \A r \in transacciones :
        r.medio = "fisico" =>
            /\ r.banco = "ninguno"
            /\ r.eliminado = 0 =>
                  /\ balance_moneda(transacciones, r.moneda)
                     = balance_moneda(transacciones \ {r}, r.moneda)
                       + con_signo(r)
                  /\ \A m \in Monedas, b \in Bancos :
                         balance_banco(transacciones, m, b)
                         = balance_banco(transacciones \ {r}, m, b)

\* a movement in cash was recorded after one held in a bank
C7_Testigo ==
    /\ ultimo.op = "add_transaction" /\ ultimo.arg # <<>>
    /\ \E r \in transacciones :
           r.id = ultimo.arg[1] /\ r.medio = "fisico" /\ r.eliminado = 0
    /\ \E r \in transacciones : r.medio = "digital" /\ r.banco \in Bancos

\* the amounts of the paid rows of an obligation table, in a currency
pagadas(tabla, moneda) ==
    SUM({c \in tabla : c.estado = "pagada" /\ c.moneda = moneda})

\* C8: the general balance of a currency is balance(currency) plus the paid
\* receivables minus the paid payables of that currency; the first markPaid
\* on a pending receivable of amount x raises the general balance of its
\* currency by x and leaves that of the other currency unchanged.
C8_BalanceGeneral ==
    /\ [](\A m \in Monedas :
              balance_general(transacciones, cuentas_por_cobrar,
                              cuentas_por_pagar, m)
              = balance_moneda(transacciones, m)
                + pagadas(cuentas_por_cobrar, m)
                - pagadas(cuentas_por_pagar, m))
    /\ [][Paso("mark_paid_cxc") =>
            \A c \in cuentas_por_cobrar :
                (c.id = ultimo'.arg[1] /\ c.estado = "pendiente") =>
                    \A m \in Monedas :
                        balance_general(transacciones', cuentas_por_cobrar',
                                        cuentas_por_pagar', m)
                        = balance_general(transacciones, cuentas_por_cobrar,
                                          cuentas_por_pagar, m)
                          + (IF m = c.moneda THEN c.monto ELSE 0)]_vars

\* a pending receivable of 2 Bs was just marked paid, with a movement of 2 Bs
\* and a paid payable of 1 Bs in the store: the general balance is 3
C8_Testigo ==
    /\ ultimo.op = "mark_paid_cxc" /\ ultimo.arg # <<>>
    /\ \E c \in ultimo.antes.cuentas_por_cobrar :
           c.id = ultimo.arg[1] /\ c.estado = "pendiente" /\ c.monto = 2
    /\ balance_moneda(transacciones, "Bs") = 2
    /\ pagadas(cuentas_por_pagar, "Bs") = 1
    /\ balance_general(transacciones, cuentas_por_cobrar, cuentas_por_pagar,
                       "Bs") = 3

\* C9: softDelete of a listed movement by an actor whose role is not master
\* fails with PermissionDenied; no run of the handler by such an actor,
\* with or without a movement selected, changes a soft-delete flag or
\* appends an audit entry.
C9_EliminarSoloMaster ==
    [][\A sel \in selecciones(transacciones), c \in BOOLEAN :
          (/\ current_user # <<>>
           /\ current_user[1].tipo # "master"
           /\ delete_transaction(sel, c)) =>
              /\ sel # <<>> => ultimo'.msg \in PermissionDenied
              /\ ultimo'.msg # ""
              /\ transacciones' = transacciones
              /\ historial_cambios' = historial_cambios]_vars

\* the standard user has just been refused the softDelete of a movement
C9_Testigo ==
    /\ ultimo.op = "delete_transaction" /\ ultimo.msg = MsgPermisoDenegado
    /\ current_user # <<>> /\ current_user[1].tipo = "estandar"
    /\ \E r \in load_transactions(transacciones) : r.id = ultimo.arg[1]
    /\ transacciones = ultimo.antes.transacciones
    /\ historial_cambios = ultimo.antes.historial_cambios

\* the change of the table transacciones in this step is the operation that
\* the audit entry e names
cambio_de(e) ==
    \/ /\ e.accion = "insert"
       /\ \E r \in transacciones' :
              /\ r.id = e.registro_id
              /\ \A q \in transacciones : q.id # r.id
              /\ transacciones' = transacciones \cup {r}
    \/ /\ e.accion = "delete"
       /\ \E r \in transacciones :
              /\ r.id = e.registro_id /\ r.eliminado = 0
              /\ transacciones' = (transacciones \ {r})
                                  \cup {[r EXCEPT !.eliminado = 1]}
    \/ /\ e.accion = "restore"
       /\ \E r \in transacciones :
              /\ r.id = e.registro_id /\ r.eliminado = 1
              /\ transacciones' = (transacciones \ {r})
                                  \cup {[r EXCEPT !.eliminado = 0]}
    \/ /\ e.accion = "purge"
       /\ \E r \in transacciones :
              /\ r.id = e.registro_id
              /\ transacciones' = transacciones \ {r}

\* C10: a step changes the table transacciones if and only if it appends an
\* entry to the audit log; it then appends exactly one, which carries the
\* username of the current user, the table name, and the action tag and the
\* movement id of the change (insert, delete, restore or purge).
C10_UnaEntradaPorMutacion ==
    [][/\ (transacciones' # transacciones)
          <=> (historial_cambios' # historial_cambios)
       /\ historial_cambios' # historial_cambios =>
            /\ Len(historial_cambios') = Len(historial_cambios) + 1
            /\ SubSeq(historial_cambios', 1, Len(historial_cambios))
               = historial_cambios
            /\ LET e == historial_cambios'[Len(historial_cambios')]
               IN  /\ current_user # <<>>
                   /\ e.usuario = current_user[1].username
                   /\ e.tabla = "transacciones"
                   /\ cambio_de(e)]_vars

\* a movement was recorded, soft-deleted and purged: three entries, in that
\* order, for the same id, and the table is empty again
C10_Testigo ==
    /\ Hecho("permanently_delete_transaction")
    /\ transacciones = {}
    /\ Len(historial_cambios) = 3
    /\ \A i \in 1..3 :
           /\ historial_cambios[i].accion = <<"insert", "delete", "purge">>[i]
           /\ historial_cambios[i].registro_id = ultimo.arg[1]
           /\ historial_cambios[i].usuario = <<"a">>

\* C11: whenever a user is authenticated, or a standard user is registered,
\* the table usuarios holds at least one master.
C11_SiempreHayMaster ==
    (current_user # <<>> \/ \E u \in usuarios : u.tipo = "estandar")
        => masters(usuarios) # {}

\* C12: every restore (a flag goes from 1 to 0) and every purge (a row
\* leaves the table) happens in the trash view while the current user has
\* role master, and the trash view is only ever shown to a master.
C12_PapeleraSoloMaster ==
    /\ [](pantalla = "papelera" =>
              current_user # <<>> /\ current_user[1].tipo = "master")
    /\ [][(\E r \in transacciones :
              \/ \A q \in transacciones' : q.id # r.id
              \/ /\ r.eliminado = 1
                 /\ \E q \in transacciones' : q.id = r.id /\ q.eliminado = 0)
          => /\ pantalla = "papelera"
             /\ current_user # <<>> /\ current_user[1].tipo = "master"
             /\ current_user' = current_user]_vars

\* the master has just restored a movement that the standard user recorded
C12_Testigo ==
    /\ ultimo.op = "restore_transaction" /\ ultimo.arg # <<>>
    /\ pantalla = "papelera"
    /\ current_user # <<>> /\ current_user[1].tipo = "master"
    /\ \E r \in transacciones :
           r.id = ultimo.arg[1] /\ r.eliminado = 0 /\ r.usuario = <<"b">>

\* the form holds a number that is not positive
MontoNoPositivo(f) == float_(f.monto) # <<>> /\ float_(f.monto)[1] <= 0

\* C13: record with an amount <= 0 fails with ValidationError and stores
\* neither a movement nor an audit entry; every stored movement has an
\* amount > 0.
C13_MontoPositivo ==
    /\ [](\A r \in transacciones : r.monto > 0)
    /\ [][\A f \in Movimientos :
             (MontoNoPositivo(f) /\ add_transaction(f)) =>
                 /\ ultimo'.msg \in ValidationError
                 /\ transacciones' = transacciones
                 /\ historial_cambios' = historial_cambios
                 /\ sqlite_sequence' = sqlite_sequence]_vars

\* an amount that is not positive was just refused, next to a stored movement
C13_Testigo ==
    /\ ultimo.op = "add_transaction" /\ ultimo.msg = MsgMontoNoPositivo
    /\ current_user # <<>>
    /\ transacciones # {}
    /\ transacciones = ultimo.antes.transacciones
    /\ historial_cambios = ultimo.antes.historial_cambios

\* the form of an obligation is refused by the specification: its amount is
\* not a number or is <= 0, its counterpart name is blank, or its due date
\* is not a date of the calendar
CuentaInvalida(f) ==
    \/ float_(f.monto) = <<>>
    \/ float_(f.monto)[1] <= 0
    \/ strip(f.nombre) = <<>>
    \/ ~strptime_ok(strip(f.fecha_venc))

\* tabla2 is tabla with exactly one more row, pending, that holds the form
UnaCuentaMas(tabla, tabla2, f) ==
    \E c \in tabla2 :
        /\ \A d \in tabla : d.id # c.id
        /\ tabla2 = tabla \cup {c}
        /\ c.estado = "pendiente"
        /\ c.nombre = strip(f.nombre) /\ c.monto = float_(f.monto)[1]
        /\ c.moneda = f.moneda
        /\ c.fecha_vencimiento = strip(f.fecha_venc)

\* C14: record(obligation), for receivables and for payables, fails with
\* ValidationError and stores nothing when the amount is <= 0 (or not a
\* number), the counterpart name is blank or the due date is not a calendar
\* date; otherwise it stores exactly one new obligation, with status pending.
C14_RegistrarCuenta ==
    [][/\ \A f \in CuentasCobrar :
              add_cxc(f) =>
                  IF CuentaInvalida(f)
                  THEN /\ ultimo'.msg \in ValidationError
                       /\ cuentas_por_cobrar' = cuentas_por_cobrar
                       /\ cuentas_por_pagar' = cuentas_por_pagar
                  ELSE /\ ultimo'.msg = MsgCxcRegistrada
                       /\ UnaCuentaMas(cuentas_por_cobrar,
                                       cuentas_por_cobrar', f)
                       /\ cuentas_por_pagar' = cuentas_por_pagar
       /\ \A f \in CuentasPagar :
              add_cxp(f) =>
                  IF CuentaInvalida(f)
                  THEN /\ ultimo'.msg \in ValidationError
                       /\ cuentas_por_pagar' = cuentas_por_pagar
                       /\ cuentas_por_cobrar' = cuentas_por_cobrar
                  ELSE /\ ultimo'.msg = MsgCxpRegistrada
                       /\ UnaCuentaMas(cuentas_por_pagar,
                                       cuentas_por_pagar', f)
                       /\ cuentas_por_cobrar' = cuentas_por_cobrar]_vars

\* a receivable with a due date outside the calendar was just refused, after
\* a payable was stored as pending
C14_Testigo ==
    /\ ultimo.op = "add_cxc" /\ ultimo.msg = MsgFechaInvalida
    /\ cuentas_por_cobrar = ultimo.antes.cuentas_por_cobrar
    /\ \E c \in cuentas_por_pagar : c.estado = "pendiente"

NotFound == {MsgSeleccioneEliminar, MsgSeleccioneCxc, MsgSeleccioneCxp}

CicloMonotono(tabla, tabla2) ==
    \A c \in tabla :
        \E d \in tabla2 :
            /\ d.id = c.id
            /\ [d EXCEPT !.estado = c.estado] = c
            /\ d.estado = c.estado
               \/ (c.estado = "pendiente" /\ d.estado = "pagada")

\* C16: the status of an obligation only ever goes from pending to paid, no
\* operation writes the status overdue ('vencida') and none deletes an
\* obligation, so every obligation is pending or paid.
C16_CicloDeCuenta ==
    /\ [](\A c \in cuentas_por_cobrar \cup cuentas_por_pagar :
              c.estado \in {"pendiente", "pagada"})
    /\ [][/\ CicloMonotono(cuentas_por_cobrar, cuentas_por_cobrar')
          /\ CicloMonotono(cuentas_por_pagar, cuentas_por_pagar')]_vars

\* a paid receivable is still paid after markPaid turned a payable from
\* pending to paid
C16_Testigo ==
    /\ ultimo.op = "mark_paid_cxp" /\ ultimo.arg # <<>>
    /\ \E c \in ultimo.antes.cuentas_por_pagar :
           c.id = ultimo.arg[1] /\ c.estado = "pendiente"
    /\ \E c \in cuentas_por_pagar :
           c.id = ultimo.arg[1] /\ c.estado = "pagada"
    /\ \E c \in cuentas_por_cobrar : c.estado = "pagada"
    /\ cuentas_por_cobrar = ultimo.antes.cuentas_por_cobrar

\* usuarios2 is usuarios with exactly one more row, which holds the form
\* (the four names without surrounding blanks) and the hash of its password
UnUsuarioMas(us, us2, f) ==
    \E u \in us2 :
        /\ \A v \in us : v.id # u.id
        /\ us2 = us \cup {u}
        /\ u.nombre = strip(f.nombre) /\ u.apellido = strip(f.apellido)
        /\ u.cedula = strip(f.cedula) /\ u.username = strip(f.username)
        /\ u.password = hash_password(f.password)
        /\ u.password # f.password

\* C17: register fails with ValidationError and stores no row when a
\* required field is blank (nombre, apellido, cedula or username empty once
\* surrounding blanks are removed, password empty) or the password has fewer
\* than 4 characters; otherwise, when neither the username nor the cedula is
\* taken, it stores exactly one row, whose password is the hash of the
\* password typed and not that password.
C17_RegistroValidado ==
    [][\A f \in RegistroTextos, radio \in Tipos :
          register_user(f, radio) =>
              IF ~CamposValidos(f)
              THEN /\ ultimo'.msg \in ValidationError
                   /\ usuarios' = usuarios
              ELSE ~Duplicado(f) =>
                       /\ ultimo'.msg = MsgUsuarioRegistrado
                       /\ UnUsuarioMas(usuarios, usuarios', f)]_vars

\* a password of three characters was just refused, after a user was stored
\* with the hash of a password
C17_Testigo ==
    /\ ultimo.op = "register_user" /\ ultimo.msg = MsgPasswordCorta
    /\ usuarios = ultimo.antes.usuarios
    /\ \E u \in usuarios : u.password = hash_password(ClaveA)

\* store operations in flight: the frames of DB.execute and DB.query
EnVuelo == {i \in DOMAIN pila : pila[i] \in {"DB.execute", "DB.query"}}

\* shutil.copy2 is copying finanzas.db
Copiando == \E i \in DOMAIN pila : pila[i] = "backup_database"

\* C18: at most one store operation is in flight at a time, DB._lock is held
\* exactly while one is, and while a backup copies the file no store
\* operation is in flight.
C18_UnaOperacionALaVez ==
    /\ Cardinality(EnVuelo) <= 1
    /\ lock <=> EnVuelo # {}
    /\ Copiando => EnVuelo = {}

\* the periodic backup copies the file while the dialog of add_transaction
\* is open, after its three writes and before the reads of load_transactions
C18_Testigo ==
    /\ pila = <<"handler", "messagebox", "backup_periodic", "backup_database">>
    /\ programa = ProgramaLoadTransactions

\* the movements a figure of the comparative counts: active, of the
\* currency, dated desde or later
Contados(moneda, desde) ==
    {r \in transacciones :
        r.eliminado = 0 /\ r.moneda = moneda /\ r.fecha >= desde}

\* C19: each figure of the comparative is entradas minus salidas over the
\* active movements of the currency dated sinceDate or later, for sinceDate
\* today, today - 7 and today - 30; the movements counted for today are
\* among those counted for 7 days, which are among those counted for 30
\* days; and when no active movement of the currency is older than 30 days
\* the 30-day figure is the balance of the currency.
C19_Comparativo ==
    \A moneda \in Monedas :
        /\ \A desde \in Desdes :
               obtener_balance(transacciones, moneda, desde) =
                   SUM({r \in Contados(moneda, desde) : r.tipo = "entrada"})
                   - SUM({r \in Contados(moneda, desde) : r.tipo = "salida"})
        /\ Contados(moneda, Hoy) \subseteq Contados(moneda, Hoy - DiasSemana)
        /\ Contados(moneda, Hoy - DiasSemana)
               \subseteq Contados(moneda, Hoy - DiasMes)
        /\ (\A r \in transacciones :
               r.eliminado = 0 /\ r.moneda = moneda => r.fecha >= Hoy - DiasMes)
           => obtener_balance(transacciones, moneda, Hoy - DiasMes) =
                  balance_moneda(transacciones, moneda)

\* the master sees 2 Bs for today and 1 Bs for the last 7 days and for the
\* last 30 days, which is the balance in Bs
C19_Testigo ==
    /\ pantalla = "main" /\ current_user # <<>>
    /\ obtener_balance(transacciones, "Bs", Hoy) = 2
    /\ obtener_balance(transacciones, "Bs", Hoy - DiasSemana) = 1
    /\ obtener_balance(transacciones, "Bs", Hoy - DiasMes) = 1
    /\ balance_moneda(transacciones, "Bs") = 1

\* the handler that ran on the row selected found it with this flag
SobreFila(eliminado) ==
    \E r \in transacciones : r.id = ultimo'.arg[1] /\ r.eliminado = eliminado

\* C20: a movement leaves the table only from the trash view and only while
\* its flag eliminado is 1, so no active movement is removed without having
\* been soft-deleted; a purge removes the movement selected and no other;
\* restore is applied only to a movement whose flag is 1, and softDelete
\* only to a movement whose flag is 0.
C20_PurgarSoloEliminados ==
    [][/\ \A r \in transacciones :
              (\A q \in transacciones' : q.id # r.id)
                  => /\ r.eliminado = 1
                     /\ pantalla = "papelera"
                     /\ ultimo'.op = "permanently_delete_transaction"
                     /\ ultimo'.arg = <<r.id>>
                     /\ transacciones' = transacciones \ {r}
       /\ Paso("permanently_delete_transaction") => SobreFila(1)
       /\ Paso("restore_transaction") => SobreFila(1)
       /\ Paso("delete_transaction") => SobreFila(0)]_vars

\* a movement that had been soft-deleted was just purged from the trash
C20_Testigo ==
    /\ Hecho("permanently_delete_transaction")
    /\ \E r \in ultimo.antes.transacciones :
           /\ r.id = ultimo.arg[1] /\ r.eliminado = 1
           /\ transacciones = ultimo.antes.transacciones \ {r}
    /\ \E i \in DOMAIN historial_cambios :
           /\ historial_cambios[i].accion = "delete"
           /\ historial_cambios[i].registro_id = ultimo.arg[1]

\* C21: a row of usuarios with tipo master is created only on the form of
\* the initial master creation, while the table holds no master, or on the
\* form of the menu Usuarios, while current_user is a master; the form of
\* the button Registrarse of the login screen creates a standard user.
C21_MasterSoloPorMaster ==
    [][\A u \in usuarios' \ usuarios :
          /\ u.tipo = "master" =>
                 \/ pantalla = "registro_master" /\ masters(usuarios) = {}
                 \/ /\ pantalla = "registro"
                    /\ current_user # <<>>
                    /\ current_user[1].tipo = "master"
          /\ pantalla = "registro_estandar" => u.tipo = "estandar"]_vars

\* a master, logged in, has just registered a second master from the menu
C21_Testigo ==
    /\ ultimo.op = "register_user" /\ ultimo.msg = MsgUsuarioRegistrado
    /\ masters(ultimo.antes.usuarios) # {}
    /\ Cardinality(masters(usuarios)) =
           Cardinality(masters(ultimo.antes.usuarios)) + 1
    /\ ultimo.antes.current_user # <<>>
    /\ ultimo.antes.current_user[1].tipo = "master"

\* C22: whenever the login screen is displayed no user is authenticated:
\* current_user is None.  register_user() returns to the login screen with
\* create_login_screen() and leaves current_user as it was, so after a
\* master registers a user from the menu Usuarios the login screen is
\* displayed while current_user still holds the master.
C22_LoginSinSesion ==
    pantalla = "login" => current_user = <<>>

====
